---------------------------- MODULE Spec2Model ----------------------------
(***************************************************************************)
(* A model of tracee-db, a ptrace based debugger.  The repository holds    *)
(* three generations of the control loop: run_debugger of src/main.rs,     *)
(* TraceeDb::run_debugger of traceedb/function.rs and                      *)
(* TraceeDbg::run_debugger of traceedb/dbg.rs, with the commands of        *)
(* traceedb/command.rs, the breakpoint record of traceedb/breakpoint.rs    *)
(* and the line resolver of traceedb/symbol.rs.  Each loop is a            *)
(* specification of its own over the same state: Spec (dbg.rs),            *)
(* SpecFunction (function.rs) and SpecMain (main.rs).                      *)
(*                                                                         *)
(* The traced process and the kernel are the environment: the target's     *)
(* text is a byte addressed memory, a machine word is a tuple of eight     *)
(* bytes (little endian), and a ptrace request succeeds exactly when the   *)
(* target is in a trace stop and the bytes it touches are mapped.          *)
(***************************************************************************)
EXTENDS Integers, Sequences, FiniteSets, TLC

\* ------------------------------------------------------------------ bounds

\* Number of mapped bytes of the target's text.
MemSize == 16

\* ---------------------------------------------------------------- constants

\* The x86-64 int3 opcode that BrkptRecord::activate ors into the word.
TrapOpcode == 204

\* First mapped address of the target's text.
TextBase == 16

None == "None"

\* ------------------------------------------------------------ bytes and words

Byte == 0..255

WordIdx == 1..8

RECURSIVE BitAnd(_, _)
BitAnd(a, b) ==
    IF a = 0 \/ b = 0 THEN 0
    ELSE (a % 2) * (b % 2) + 2 * BitAnd(a \div 2, b \div 2)

RECURSIVE BitOr(_, _)
BitOr(a, b) ==
    IF a = 0 THEN b
    ELSE IF b = 0 THEN a
    ELSE (IF a % 2 = 1 \/ b % 2 = 1 THEN 1 ELSE 0) + 2 * BitOr(a \div 2, b \div 2)

WordAnd(w, m) == [i \in WordIdx |-> BitAnd(w[i], m[i])]

WordOr(w, m) == [i \in WordIdx |-> BitOr(w[i], m[i])]

\* The literal 0xFFFFFF00 at type i64: bytes 1..3 kept, byte 0 and bytes 4..7 cleared.
InsnMask == <<0, 255, 255, 255, 0, 0, 0, 0>>

\* The literal 0xCC at type i64.
TrapWord == <<TrapOpcode, 0, 0, 0, 0, 0, 0, 0>>

\* -1 as a machine word: what the kernel returns from a failed request.
MinusOne == <<255, 255, 255, 255, 255, 255, 255, 255>>

\* An address no mapping of the model covers; every address that does not fit
\* two bytes is folded onto it.
FarAddr == 65536

\* `usize as *mut c_void`: the address a word denotes.
WordToAddr(w) ==
    IF \A i \in 3..8 : w[i] = 0 THEN w[1] + 256 * w[2] ELSE FarAddr

\* `u64 as *mut c_void` for the small addresses of the line table.
AddrToWord(a) == <<a % 256, (a \div 256) % 256, 0, 0, 0, 0, 0, 0>>


\* -------------------------------------------------------------------- text
\* A string is a sequence of one-character strings.

Whitespace == {" ", "\t", "\n"}

RECURSIVE SplitWhitespaceAcc(_, _, _)
SplitWhitespaceAcc(s, cur, out) ==
    IF s = <<>> THEN (IF cur = <<>> THEN out ELSE Append(out, cur))
    ELSE IF Head(s) \in Whitespace
         THEN SplitWhitespaceAcc(Tail(s), <<>>, IF cur = <<>> THEN out ELSE Append(out, cur))
         ELSE SplitWhitespaceAcc(Tail(s), Append(cur, Head(s)), out)

\* str::split_whitespace: the non-empty runs of non-whitespace characters.
split_whitespace(s) == SplitWhitespaceAcc(s, <<>>, <<>>)

RECURSIVE SplitAcc(_, _, _, _)
SplitAcc(s, sep, cur, out) ==
    IF s = <<>> THEN Append(out, cur)
    ELSE IF Head(s) = sep
         THEN SplitAcc(Tail(s), sep, <<>>, Append(out, cur))
         ELSE SplitAcc(Tail(s), sep, Append(cur, Head(s)), out)

\* str::split(sep): the pieces between separators, empty pieces included.
split(s, sep) == SplitAcc(s, sep, <<>>, <<>>)

LowerDigits == <<"0", "1", "2", "3", "4", "5", "6", "7", "8", "9",
                 "a", "b", "c", "d", "e", "f">>

UpperDigits == <<"0", "1", "2", "3", "4", "5", "6", "7", "8", "9",
                 "A", "B", "C", "D", "E", "F">>

\* char::to_digit(radix), -1 when the character is no digit of the radix.
to_digit(c, radix) ==
    IF \E i \in 1..radix : LowerDigits[i] = c
    THEN (CHOOSE i \in 1..radix : LowerDigits[i] = c) - 1
    ELSE IF \E i \in 1..radix : UpperDigits[i] = c
         THEN (CHOOSE i \in 1..radix : UpperDigits[i] = c) - 1
         ELSE -1

RECURSIVE StripZeros(_)
StripZeros(ds) ==
    IF ds # <<>> /\ Head(ds) = 0 THEN StripZeros(Tail(ds)) ELSE ds

\* The digits of an unsigned literal: one leading "+" is accepted.
Digits(s) == IF s # <<>> /\ Head(s) = "+" THEN Tail(s) ELSE s

ValidDigits(s, radix) ==
    /\ Digits(s) # <<>>
    /\ \A i \in 1..Len(Digits(s)) : to_digit(Digits(s)[i], radix) >= 0

Significant(s, radix) ==
    StripZeros([i \in 1..Len(Digits(s)) |-> to_digit(Digits(s)[i], radix)])

\* Sixteen nibbles, most significant first, as the word of eight bytes.
NibblesToWord(sig) ==
    LET pad    == 16 - Len(sig)
        nib(k) == IF k <= pad THEN 0 ELSE sig[k - pad]
    IN  [i \in WordIdx |-> 16 * nib(17 - 2 * i) + nib(18 - 2 * i)]

\* usize::from_str_radix(s, 16): more than sixteen significant digits overflow.
from_str_radix(s) ==
    IF ValidDigits(s, 16) /\ Len(Significant(s, 16)) <= 16
    THEN [ok |-> TRUE, val |-> NibblesToWord(Significant(s, 16))]
    ELSE [ok |-> FALSE, val |-> MinusOne]

RECURSIVE DecValue(_, _)
DecValue(ds, acc) ==
    IF ds = <<>> THEN acc ELSE DecValue(Tail(ds), 10 * acc + Head(ds))

\* str::parse::<u64>(): the lines of the model stay below ten digits.
parse_u64(s) ==
    IF ValidDigits(s, 10) /\ Len(Significant(s, 10)) <= 9
    THEN [ok |-> TRUE, val |-> DecValue(Significant(s, 10), 0)]
    ELSE [ok |-> FALSE, val |-> 0]

\* parse_file_and_lineno of dbg.rs and of command.rs (the same text).
parse_file_and_lineno(string) ==
    LET vec == split(string, ":")
    IN  IF Len(vec) # 2
        THEN [ok |-> FALSE, fname |-> <<>>, lno |-> 0,
              msg |-> "Failed to parse, please supply in format of file:lineno"]
        ELSE IF parse_u64(vec[2]).ok
             THEN [ok |-> TRUE, fname |-> vec[1], lno |-> parse_u64(vec[2]).val, msg |-> ""]
             ELSE [ok |-> FALSE, fname |-> <<>>, lno |-> 0,
                   msg |-> "Failed to parse a line number from supplied argument!"]

\* ------------------------------------------------------- debug information
\* A loaded Dwarf is the sequence of its units; a unit's top entry may carry a
\* compilation directory (DW_AT_comp_dir, 0x1b) and a name (DW_AT_name, 0x03),
\* and the unit may have a line program: rows of (line, address), line 0
\* standing for a row without a line.

RECURSIVE ScanRows(_, _)
ScanRows(rows, line_num) ==
    IF rows = <<>> THEN -1
    ELSE IF Head(rows).line # 0 /\ Head(rows).line = line_num
         THEN Head(rows).address
         ELSE ScanRows(Tail(rows), line_num)

\* The test on a unit's top entry, with the name attribute alone.
Considered_NameOnly(u, filename) == u.has_name /\ u.name = filename

\* The test on a unit's top entry: both attributes are there, and the string
\* of the name attribute is the filename.
Considered(u, filename) == u.comp_dir /\ u.has_name /\ u.name = filename

RECURSIVE src_line_to_addr(_, _, _)
src_line_to_addr(units, filename, line_num) ==
    IF units = <<>> THEN [kind |-> "Err", addr |-> 0]
    ELSE LET u == Head(units)
         IN  IF Considered(u, filename)
             THEN IF ~u.has_line_program
                  THEN [kind |-> "Panic", addr |-> 0]
                  ELSE IF ScanRows(u.rows, line_num) >= 0
                       THEN [kind |-> "Ok", addr |-> ScanRows(u.rows, line_num)]
                       ELSE src_line_to_addr(Tail(units), filename, line_num)
             ELSE src_line_to_addr(Tail(units), filename, line_num)

\* ---------------------------------------------------------------- commands

Ok(c, a, v) == [kind |-> "Ok", cmd |-> c, addr |-> a, val |-> v, msg |-> ""]

Err(m) == [kind |-> "Err", cmd |-> "", addr |-> MinusOne, val |-> MinusOne, msg |-> m]

Panic(m) == [kind |-> "Panic", cmd |-> "", addr |-> MinusOne, val |-> MinusOne, msg |-> m]

NoArg == <<0, 0, 0, 0, 0, 0, 0, 0>>

\* The verbs, as character sequences.
V_reg == <<"r", "e", "g">>
V_registers == <<"r", "e", "g", "i", "s", "t", "e", "r", "s">>
V_s == <<"s">>
V_step == <<"s", "t", "e", "p">>
V_c == <<"c">>
V_continue == <<"c", "o", "n", "t", "i", "n", "u", "e">>
V_q == <<"q">>
V_quit == <<"q", "u", "i", "t">>
V_h == <<"h">>
V_help == <<"h", "e", "l", "p">>
V_r == <<"r">>
V_read == <<"r", "e", "a", "d">>
V_w == <<"w">>
V_write == <<"w", "r", "i", "t", "e">>
V_b == <<"b">>
V_breakpoint == <<"b", "r", "e", "a", "k", "p", "o", "i", "n", "t">>

\* ResolveBreakpoint unwrapping the result of src_line_to_addr.
ResolveBreakpoint_Unwrap(symbols, args) ==
    IF ~symbols.loaded
    THEN Err("Cannot resolve source lines without debug symbols!")
    ELSE IF args = <<>>
    THEN Err("Insufficient arguments for command!")
    ELSE LET fl == parse_file_and_lineno(args[1])
         IN  IF ~fl.ok THEN Err(fl.msg)
             ELSE LET r == src_line_to_addr(symbols.units, fl.fname, fl.lno)
                  IN  CASE r.kind = "Ok" -> Ok("Breakpoint", AddrToWord(r.addr), NoArg)
                        [] OTHER -> Panic("called Result::unwrap on an Err value")

\* The `b` arm shared by both interpreters: resolve file:line to an address.
ResolveBreakpoint(symbols, args) ==
    IF ~symbols.loaded
    THEN Err("Cannot resolve source lines without debug symbols!")
    ELSE IF args = <<>>
    THEN Err("Insufficient arguments for command!")
    ELSE LET fl == parse_file_and_lineno(args[1])
         IN  IF ~fl.ok THEN Err(fl.msg)
             ELSE LET r == src_line_to_addr(symbols.units, fl.fname, fl.lno)
                  IN  CASE r.kind = "Ok" -> Ok("Breakpoint", AddrToWord(r.addr), NoArg)
                        [] r.kind = "Err" -> Err("Failed to resolve address!")
                        [] OTHER -> Panic("called Option::unwrap on a None value")

\* TraceeDbg::prompt_user_cmd of dbg.rs, from the line read to the command.
TraceeDbg_prompt_user_cmd(symbols, user_input) ==
    LET terms   == split_whitespace(user_input)
        command == terms[1]
        args    == Tail(terms)
    IN  IF terms = <<>> THEN Panic("called Option::unwrap on a None value")
        ELSE CASE command \in {V_reg, V_registers} -> Ok("ViewRegisters", NoArg, NoArg)
               [] command \in {V_s, V_step} -> Ok("Step", NoArg, NoArg)
               [] command \in {V_c, V_continue} -> Ok("Continue", NoArg, NoArg)
               [] command \in {V_q, V_quit} -> Ok("Quit", NoArg, NoArg)
               [] command \in {V_h, V_help} -> Ok("HelpMe", NoArg, NoArg)
               [] command \in {V_r, V_read} ->
                    IF args = <<>> THEN Err("Missing the address to read from")
                    ELSE IF from_str_radix(args[1]).ok
                         THEN Ok("ReadWord", from_str_radix(args[1]).val, NoArg)
                         ELSE Err("Failed to parse: please supply hex value!")
               [] command \in {V_w, V_write} ->
                    IF Len(args) >= 2 /\ from_str_radix(args[1]).ok /\ from_str_radix(args[2]).ok
                    THEN Ok("WriteWord", from_str_radix(args[1]).val, from_str_radix(args[2]).val)
                    ELSE Err("Failed to parse args for writing word!")
               [] command \in {V_b, V_breakpoint} -> ResolveBreakpoint(symbols, args)
               [] OTHER -> Err("Could not recognize command!")

\* prompt_user_cmd of command.rs.
prompt_user_cmd(symbols, user_input) ==
    LET terms   == split_whitespace(user_input)
        command == terms[1]
        args    == Tail(terms)
    IN  IF terms = <<>> THEN Panic("called Option::unwrap on a None value")
        ELSE CASE command \in {V_reg, V_registers} -> Ok("ViewRegisters", NoArg, NoArg)
               [] command \in {V_s, V_step} -> Ok("Step", NoArg, NoArg)
               [] command \in {V_c, V_continue} -> Ok("Continue", NoArg, NoArg)
               [] command \in {V_q, V_quit} -> Ok("Quit", NoArg, NoArg)
               [] command \in {V_h, V_help} -> Ok("HelpMe", NoArg, NoArg)
               [] command \in {V_r, V_read} ->
                    IF args = <<>> THEN Err("Missing the address to read from!")
                    ELSE IF from_str_radix(args[1]).ok
                         THEN Ok("ReadWord", from_str_radix(args[1]).val, NoArg)
                         ELSE Err("Failed to parse address: please supply hex value!")
               [] command \in {V_w, V_write} ->
                    IF Len(args) < 2 THEN Err("Insufficient arguments for command!")
                    ELSE IF from_str_radix(args[1]).ok /\ from_str_radix(args[2]).ok
                         THEN Ok("WriteWord", from_str_radix(args[1]).val, from_str_radix(args[2]).val)
                         ELSE Err("Failed to parse args for writing word!")
               [] command \in {V_b, V_breakpoint} -> ResolveBreakpoint(symbols, args)
               [] OTHER -> Err("Could not recognize command!")

\* accept_user_input of main.rs: every failure is Command::Unknown.
accept_user_input(user_input) ==
    LET terms   == split_whitespace(user_input)
        command == terms[1]
        args    == Tail(terms)
    IN  IF terms = <<>> THEN Panic("called Option::unwrap on a None value")
        ELSE CASE command \in {V_reg, V_registers} -> Ok("ViewRegisters", NoArg, NoArg)
               [] command \in {V_s, V_step} -> Ok("Step", NoArg, NoArg)
               [] command \in {V_c, V_continue} -> Ok("Continue", NoArg, NoArg)
               [] command \in {V_q, V_quit} -> Ok("Quit", NoArg, NoArg)
               [] command \in {V_r, V_read} ->
                    IF args = <<>> THEN Ok("Unknown", NoArg, NoArg)
                    ELSE IF from_str_radix(args[1]).ok
                         THEN Ok("Read", from_str_radix(args[1]).val, NoArg)
                         ELSE Ok("Unknown", NoArg, NoArg)
               [] command \in {V_w, V_write} ->
                    IF Len(args) < 2 THEN Ok("Unknown", NoArg, NoArg)
                    ELSE IF from_str_radix(args[1]).ok /\ from_str_radix(args[2]).ok
                         THEN Ok("Write", from_str_radix(args[1]).val, from_str_radix(args[2]).val)
                         ELSE Ok("Unknown", NoArg, NoArg)
               [] OTHER -> Ok("Unknown", NoArg, NoArg)


\* ------------------------------------------------------- the lines typed
\* Operands and whole lines, as read_line returns them (a line ends with "\n";
\* the empty string is end of input).

T_10 == <<"1", "0">>
T_18 == <<"1", "8">>
T_20 == <<"2", "0">>
T_zz == <<"z", "z">>
T_cc == <<"c", "c">>
T_val == <<"1", "1", "2", "2", "3", "3", "4", "4", "d", "e", "a", "d", "b", "e", "e", "f">>
T_ff == <<"f", "f", "f", "f", "f", "f", "f", "f", "f", "f", "f", "f", "f", "f", "f", "f">>
T_x == <<"x">>
F_a == <<"a", ".", "c">>
F_b == <<"b", ".", "c">>
F_n == <<"n", ".", "c">>
T_a4 == F_a \o <<":", "4">>
T_a5 == F_a \o <<":", "5">>
T_a6 == F_a \o <<":", "6">>
T_a9 == F_a \o <<":", "9">>
T_b5 == F_b \o <<":", "5">>
T_n1 == F_n \o <<":", "1">>
T_ax == F_a \o <<":", "x">>
T_a55 == F_a \o <<":", "5", ":", "5">>

RECURSIVE Join(_)
Join(toks) ==
    IF toks = <<>> THEN <<"\n">>
    ELSE IF Len(toks) = 1 THEN Head(toks) \o <<"\n">>
    ELSE Head(toks) \o <<" ">> \o Join(Tail(toks))

Lines ==
    { Join(<<v>>) : v \in {V_s, V_step, V_c, V_continue, V_reg, V_registers,
                           V_q, V_quit, V_h, V_help, V_r, V_w, V_b, T_x} }
    \cup { Join(<<V_r, t>>) : t \in {T_10, T_18, T_20, T_zz} }
    \cup { Join(<<V_read, T_10>>), Join(<<V_r, T_10, T_20>>), Join(<<V_s, T_x>>) }
    \cup { Join(<<V_w, T_10>>), Join(<<V_w, T_10, T_zz>>), Join(<<V_w, T_10, T_val>>),
           Join(<<V_write, T_18, T_cc>>), Join(<<V_w, T_18, T_cc>>),
           Join(<<V_w, T_20, T_cc>>),
           Join(<<V_w, T_10, T_val, T_cc>>), Join(<<V_w, T_10, T_ff>>) }
    \cup { Join(<<V_b, t>>) : t \in {T_a4, T_a5, T_a6, T_a9, T_b5, T_n1, T_ax, T_a55, F_a} }
    \cup { Join(<<V_breakpoint, T_a5>>) }
    \cup { <<>>, <<"\n">>, <<" ", "\t", "\n">>, <<" ", "s", " ", " ", "\n">> }

\* The images dwarf_symbols may have loaded: none, the empty one, or the units of
\* a target built from a.c (twice, and once without a compilation directory) and
\* n.c.
NoSymbols == [loaded |-> FALSE, units |-> <<>>]

\* What load_dwarf_data makes of a target without debug sections: every section
\* is empty, and the loaded Dwarf has no unit.
NoUnits == [loaded |-> TRUE, units |-> <<>>]

\* The bytes of a file: an object file or not, with debug sections or not.
Stripped == [object |-> TRUE, debug_info |-> FALSE]

FileBufs == [object : BOOLEAN, debug_info : BOOLEAN]

Row(l, a) == [line |-> l, address |-> a]

Unit(dir, named, n, lp, rs) ==
    [comp_dir |-> dir, has_name |-> named, name |-> n, has_line_program |-> lp, rows |-> rs]

Image ==
    [loaded |-> TRUE,
     units  |-> << Unit(FALSE, TRUE, F_a, TRUE, <<Row(9, TextBase + 1)>>),
                   Unit(TRUE, TRUE, F_a, TRUE,
                        <<Row(0, TextBase + 1), Row(4, TextBase), Row(5, TextBase + 8),
                          Row(5, TextBase + 1)>>),
                   Unit(TRUE, FALSE, <<>>, TRUE, <<Row(6, TextBase + 1)>>),
                   Unit(TRUE, TRUE, F_a, TRUE, <<Row(6, TextBase + 8)>>),
                   Unit(TRUE, TRUE, F_n, FALSE, <<>>) >>]

\* load_dwarf_data: object::File::parse fails on bytes that are no object file;
\* the section loader answers a missing section with the empty slice, so
\* Dwarf::load succeeds on a file without debug sections and has no unit.
load_dwarf_data(f_buf) ==
    IF ~f_buf.object THEN [ok |-> FALSE, units |-> <<>>]
    ELSE [ok |-> TRUE, units |-> IF f_buf.debug_info THEN Image.units ELSE <<>>]

\* TraceeBuilder::dwarf_symbols: `load_dwarf_data(file_buf).ok()`.
dwarf_symbols(f_buf) ==
    IF load_dwarf_data(f_buf).ok
    THEN [loaded |-> TRUE, units |-> load_dwarf_data(f_buf).units]
    ELSE NoSymbols

\* The symbols of a session: none when dwarf_symbols was not called.
DwarfImages == {NoSymbols} \cup {dwarf_symbols(f_buf) : f_buf \in FileBufs}

\* ------------------------------------------------------------- the target

Mapped == TextBase..(TextBase + MemSize - 1)

\* push %rbp; mov %rsp,%rbp; sub $0x10,%rsp; movl $1,-4(%rbp); ret
CodeImage == <<85, 72, 137, 229, 72, 131, 236, 16, 199, 69, 252, 1, 0, 0, 0, 195>>

CodeByte(off) == CodeImage[(off % Len(CodeImage)) + 1]

\* Where the instructions of the image start.
InsnAddrs == {TextBase + o : o \in {0, 1, 8}}

VARIABLES
    pc,           \* where the control loop stands
    wait_status,  \* what the last waitpid returned
    breakpoints,  \* TraceeDbg.breakpoints / TraceeDb.breakpoints: rip -> record
    symbols,      \* TraceeDbg.symbols
    brkpt,        \* the BrkptRecord of the Breakpoint command just executed
    mem,          \* the target's text, byte by byte
    rip,          \* the target's instruction pointer
    tstate,       \* stopped | stepping | running | zombie | reaped
    notify,       \* the state change the kernel has not reported yet
    hit,          \* address of the int3 that made the last stop, or -1
    corrected,    \* whether that stop was rewound: word restored, rip - 1
    pristine,     \* address -> the word there before its first breakpoint
    last,         \* the last command and what became of it
    reqs,         \* the kernel requests the last step of the loop made
    user_input,   \* the line the interpreter has just read, <<>> outside it
    parsed,       \* what the interpreter made of that line
    written       \* the last word written, while the target has not run since

vars == <<pc, wait_status, breakpoints, symbols, brkpt, mem, rip, tstate, notify,
          hit, corrected, pristine, last, reqs, user_input, parsed, written>>

dbgvars == <<pc, wait_status, breakpoints, symbols, brkpt, last, reqs, user_input, parsed,
            written>>

targetvars == <<mem, rip, tstate, notify, hit, corrected>>

InRange(a) == a >= TextBase /\ a + 7 <= TextBase + MemSize - 1

\* The word at a: bytes a..a+7, least significant first.
Peek(m, a) == [i \in WordIdx |-> m[a + i - 1]]

Poke(m, a, w) == [x \in Mapped |-> IF a <= x /\ x <= a + 7 THEN w[x - a + 1] ELSE m[x]]

\* A ptrace request needs the target in a trace stop.
Traced == tstate = "stopped"

\* libc::ptrace(PTRACE_PEEKTEXT): the word, or -1 with errno set.
KernelPeek(a) ==
    IF ~Traced THEN [ret |-> MinusOne, errno |-> "ESRCH"]
    ELSE IF ~InRange(a) THEN [ret |-> MinusOne, errno |-> "EIO"]
    ELSE [ret |-> Peek(mem, a), errno |-> "UnknownErrno"]

\* libc::ptrace(PTRACE_POKETEXT): 0, or -1 with errno set.
KernelPokeOk(a) == Traced /\ InRange(a)

\* peek_text taking every -1 the kernel returns for a failure.
peek_text_MinusOneFails(a) ==
    LET k == KernelPeek(a)
    IN  IF k.ret = MinusOne
        THEN [ok |-> FALSE, val |-> k.ret]
        ELSE [ok |-> TRUE, val |-> k.ret]

\* peek_text of breakpoint.rs: an error only when -1 comes back with errno set.
peek_text(a) ==
    LET k == KernelPeek(a)
    IN  IF k.ret = MinusOne /\ k.errno # "UnknownErrno"
        THEN [ok |-> FALSE, val |-> k.ret]
        ELSE [ok |-> TRUE, val |-> k.ret]

\* BrkptRecord::new: the record holds the word read at pc_addr.
BrkptRecord_new(a) == [pc_addr |-> a, original_insn |-> peek_text(a).val]

\* The word BrkptRecord::activate pokes.
TrapWordFor(original_insn) == WordOr(WordAnd(original_insn, InsnMask), TrapWord)

NoRecord == [pc_addr |-> -1, original_insn |-> NoArg]

Idle == [cmd |-> "", stat |-> "", msg |-> "", val |-> NoArg]

Did(c, st, m) == [cmd |-> c, stat |-> st, msg |-> m, val |-> NoArg]

\* No word written since the target last ran.
NoWrite == [addr |-> -1, val |-> NoArg]

\* No line has been read: the loop is not inside the interpreter.
NoCommand == [kind |-> "", cmd |-> "", addr |-> NoArg, val |-> NoArg, msg |-> ""]

\* The state run_debugger starts from: the target is stopped at its entry after
\* exec (SIGTRAP) or after attach (SIGSTOP), and the stop is not yet waited for.
Init ==
    /\ pc = "await_process"
    /\ wait_status = None
    /\ breakpoints = <<>>
    /\ symbols \in DwarfImages
    /\ brkpt = NoRecord
    /\ mem = [x \in Mapped |-> CodeByte(x - TextBase)]
    /\ rip = TextBase
    /\ tstate = "stopped"
    /\ notify \in {"SIGTRAP", "SIGSTOP"}
    /\ hit = -1
    /\ corrected = FALSE
    /\ pristine = <<>>
    /\ last = Idle
    /\ reqs = {}
    /\ user_input = <<>>
    /\ parsed = NoCommand
    /\ written = NoWrite

\* ------------------------------------------------- the target and the kernel

Stop(sig) == tstate' = "stopped" /\ notify' = sig

\* The resumed target executes the instruction at rip.  An int3 traps with rip
\* one past it; anything else goes on to some instruction, or ends in an exit,
\* a fault or another signal.  A single step stops after the instruction.
TargetExec ==
    /\ tstate \in {"stepping", "running"}
    /\ UNCHANGED <<dbgvars, mem, pristine>>
    /\ IF rip \notin Mapped
       THEN Stop("SIGSEGV") /\ hit' = -1 /\ corrected' = FALSE /\ UNCHANGED rip
       ELSE IF mem[rip] = TrapOpcode
       THEN Stop("SIGTRAP") /\ rip' = rip + 1 /\ hit' = rip /\ corrected' = FALSE
       ELSE \/ /\ rip' \in InsnAddrs
               /\ IF tstate = "stepping" THEN Stop("SIGTRAP") /\ hit' = -1 /\ corrected' = FALSE
                  ELSE UNCHANGED <<tstate, notify, hit, corrected>>
            \/ /\ tstate' = "zombie" /\ notify' = "Exited"
               /\ hit' = -1 /\ corrected' = FALSE /\ UNCHANGED rip
            \/ /\ Stop("SIGSEGV") /\ hit' = -1 /\ corrected' = FALSE /\ UNCHANGED rip
            \/ /\ Stop("SIGINT") /\ hit' = -1 /\ corrected' = FALSE /\ UNCHANGED rip

\* Another process kills the target (SIGKILL): it is gone, whatever it did.
ExternalKill ==
    /\ tstate \in {"stopped", "stepping", "running"}
    /\ tstate' = "zombie"
    /\ notify' = "Signaled"
    /\ hit' = -1 /\ corrected' = FALSE
    /\ UNCHANGED <<dbgvars, mem, rip, pristine>>

\* waitpid returns when there is a state change to report, and fails with
\* ECHILD once the child has been reaped; otherwise it blocks.
WaitReturns == notify # None \/ tstate = "reaped"

WaitResult == IF notify # None THEN notify ELSE "ECHILD"

Reap == IF notify \in {"Exited", "Signaled"} THEN "reaped" ELSE tstate

\* --------------------------------------------- the commands of command.rs
\* cmds holds, for each line the user may type, what the interpreter of the loop
\* makes of it; again is where `continue 'await_user` leads in that loop.

\* TraceeDbg::prompt_user_cmd over the lines, for each image of the symbols.
DbgCommands ==
    [s \in DwarfImages |-> {[line |-> l, c |-> TraceeDbg_prompt_user_cmd(s, l)] : l \in Lines}]

\* prompt_user_cmd of command.rs over the lines.
FnCommands ==
    [s \in DwarfImages |-> {[line |-> l, c |-> prompt_user_cmd(s, l)] : l \in Lines}]

\* accept_user_input of main.rs over the lines.
MainCommands == {[line |-> l, c |-> accept_user_input(l)] : l \in Lines}

\* read_line returned the line of entry e, of which the interpreter made e.c.
Entered(e) == user_input' = e.line /\ parsed' = e.c

\* Next_pc with the Killed arm going round the loop instead of leaving it.
Next_pc_KilledContinues(stat, again) ==
    CASE stat = "Running" -> "await_process"
      [] stat = "Panic" -> "panicked"
      [] OTHER -> again

Next_pc(stat, again) ==
    CASE stat = "Running" -> "await_process"
      [] stat = "Killed" -> "ended"
      [] stat = "Panic" -> "panicked"
      [] OTHER -> again

\* Step::execute followed by `continue 'await_user` whatever it answered.
Step_NoWait(cmds, again) ==
    /\ pc = "prompt"
    /\ \E e \in cmds : e.c = Ok("Step", NoArg, NoArg) /\ Entered(e)
    /\ reqs' = {"PTRACE_SINGLESTEP"}
    /\ IF Traced
       THEN /\ last' = Did("Step", "Running", "")
            /\ tstate' = "stepping"
       ELSE /\ last' = Did("Step", "Err", "failed to PTRACE_SINGLESTEP")
            /\ UNCHANGED tstate
    /\ pc' = again
    /\ brkpt' = NoRecord
    /\ UNCHANGED <<wait_status, breakpoints, symbols, mem, rip, notify, hit, corrected, pristine>>
    /\ written' = NoWrite

\* Step::execute
Step(cmds, again) ==
    /\ pc = "prompt"
    /\ \E e \in cmds : e.c = Ok("Step", NoArg, NoArg) /\ Entered(e)
    /\ reqs' = {"PTRACE_SINGLESTEP"}
    /\ IF Traced
       THEN /\ last' = Did("Step", "Running", "")
            /\ tstate' = "stepping"
       ELSE /\ last' = Did("Step", "Err", "failed to PTRACE_SINGLESTEP")
            /\ UNCHANGED tstate
    /\ pc' = Next_pc(last'.stat, again)
    /\ brkpt' = NoRecord
    /\ UNCHANGED <<wait_status, breakpoints, symbols, mem, rip, notify, hit, corrected, pristine>>
    /\ written' = NoWrite

\* Continue::execute
Continue(cmds, again) ==
    /\ pc = "prompt"
    /\ \E e \in cmds : e.c = Ok("Continue", NoArg, NoArg) /\ Entered(e)
    /\ reqs' = {"PTRACE_CONT"}
    /\ IF Traced
       THEN /\ last' = Did("Continue", "Running", "")
            /\ tstate' = "running"
       ELSE /\ last' = Did("Continue", "Err", "failed to PTRACE_CONT")
            /\ UNCHANGED tstate
    /\ pc' = Next_pc(last'.stat, again)
    /\ brkpt' = NoRecord
    /\ UNCHANGED <<wait_status, breakpoints, symbols, mem, rip, notify, hit, corrected, pristine>>
    /\ written' = NoWrite

\* ViewRegisters::execute
ViewRegisters(cmds, again) ==
    /\ pc = "prompt"
    /\ \E e \in cmds : e.c = Ok("ViewRegisters", NoArg, NoArg) /\ Entered(e)
    /\ reqs' = {"PTRACE_GETREGS"}
    /\ last' = IF Traced THEN [Did("ViewRegisters", "AwaitingCommand", "") EXCEPT !.val = AddrToWord(rip)]
               ELSE Did("ViewRegisters", "Err", "failed to PTRACE_GETREGS")
    /\ pc' = Next_pc(last'.stat, again)
    /\ brkpt' = NoRecord
    /\ UNCHANGED <<wait_status, breakpoints, symbols, targetvars, pristine>>
    /\ UNCHANGED written

\* Quit::execute
Quit(cmds, again) ==
    /\ pc = "prompt"
    /\ \E e \in cmds : e.c = Ok("Quit", NoArg, NoArg) /\ Entered(e)
    /\ reqs' = {"PTRACE_KILL"}
    /\ IF Traced
       THEN /\ last' = Did("Quit", "Killed", "")
            /\ tstate' = "zombie" /\ notify' = "Signaled"
       ELSE /\ last' = Did("Quit", "Err", "failed to terminate target process")
            /\ UNCHANGED <<tstate, notify>>
    /\ pc' = Next_pc(last'.stat, again)
    /\ brkpt' = NoRecord
    /\ UNCHANGED <<wait_status, breakpoints, symbols, mem, rip, hit, corrected, pristine>>
    /\ written' = NoWrite

\* HelpMe::execute
HelpMe(cmds, again) ==
    /\ pc = "prompt"
    /\ \E e \in cmds : e.c = Ok("HelpMe", NoArg, NoArg) /\ Entered(e)
    /\ reqs' = {}
    /\ last' = Did("HelpMe", "AwaitingCommand", "")
    /\ pc' = Next_pc(last'.stat, again)
    /\ brkpt' = NoRecord
    /\ UNCHANGED <<wait_status, breakpoints, symbols, targetvars, pristine>>
    /\ UNCHANGED written

\* ReadWord::execute answering TargetStat::Running for a word that was read.
ReadWord_Running(cmds, again) ==
    /\ pc = "prompt"
    /\ \E e \in cmds :
         LET k == KernelPeek(WordToAddr(e.c.addr))
         IN  /\ e.c.kind = "Ok" /\ e.c.cmd = "ReadWord"
             /\ Entered(e)
             /\ last' = IF k.errno = "UnknownErrno"
                        THEN [Did("ReadWord", "Running", "") EXCEPT !.val = k.ret]
                        ELSE Did("ReadWord", "Err", "failed to PTRACE_CONT")
    /\ reqs' = {"PTRACE_PEEKDATA"}
    /\ pc' = IF last'.stat = "Running" THEN "await_process" ELSE again
    /\ brkpt' = NoRecord
    /\ UNCHANGED <<wait_status, breakpoints, symbols, targetvars, pristine>>
    /\ UNCHANGED written

\* ReadWord::execute
ReadWord(cmds, again) ==
    /\ pc = "prompt"
    /\ \E e \in cmds :
         LET k == KernelPeek(WordToAddr(e.c.addr))
         IN  /\ e.c.kind = "Ok" /\ e.c.cmd = "ReadWord"
             /\ Entered(e)
             /\ last' = IF k.errno = "UnknownErrno"
                        THEN [Did("ReadWord", "AwaitingCommand", "") EXCEPT !.val = k.ret]
                        ELSE Did("ReadWord", "Err", "failed to PTRACE_CONT")
    /\ reqs' = {"PTRACE_PEEKDATA"}
    /\ pc' = Next_pc(last'.stat, again)
    /\ brkpt' = NoRecord
    /\ UNCHANGED <<wait_status, breakpoints, symbols, targetvars, pristine>>
    /\ UNCHANGED written

\* WriteWord::execute poking the low four bytes of the word only.
WriteWord_Truncated(cmds, again) ==
    /\ pc = "prompt"
    /\ \E e \in cmds :
         LET a == WordToAddr(e.c.addr)
         IN  /\ e.c.kind = "Ok" /\ e.c.cmd = "WriteWord"
             /\ Entered(e)
             /\ IF KernelPokeOk(a)
                THEN /\ mem' = Poke(mem, a, [i \in WordIdx |-> IF i <= 4 THEN e.c.val[i]
                                                               ELSE Peek(mem, a)[i]])
                     /\ last' = [Did("WriteWord", "AwaitingCommand", "") EXCEPT !.val = e.c.addr]
                ELSE /\ mem' = mem
                     /\ last' = Did("WriteWord", "Err", "failed to PTRACE_CONT")
    /\ reqs' = {"PTRACE_POKEDATA"}
    /\ pc' = Next_pc(last'.stat, again)
    /\ brkpt' = NoRecord
    /\ UNCHANGED <<wait_status, breakpoints, symbols, rip, tstate, notify, hit,
                   corrected, pristine>>
    /\ written' = IF last'.stat = "AwaitingCommand"
                  THEN [addr |-> WordToAddr(parsed'.addr), val |-> parsed'.val]
                  ELSE NoWrite

\* WriteWord::execute
WriteWord(cmds, again) ==
    /\ pc = "prompt"
    /\ \E e \in cmds :
         LET a == WordToAddr(e.c.addr)
         IN  /\ e.c.kind = "Ok" /\ e.c.cmd = "WriteWord"
             /\ Entered(e)
             /\ IF KernelPokeOk(a)
                THEN /\ mem' = Poke(mem, a, e.c.val)
                     /\ last' = [Did("WriteWord", "AwaitingCommand", "") EXCEPT !.val = e.c.addr]
                ELSE /\ mem' = mem
                     /\ last' = Did("WriteWord", "Err", "failed to PTRACE_CONT")
    /\ reqs' = {"PTRACE_POKEDATA"}
    /\ pc' = Next_pc(last'.stat, again)
    /\ brkpt' = NoRecord
    /\ UNCHANGED <<wait_status, breakpoints, symbols, rip, tstate, notify, hit,
                   corrected, pristine>>
    /\ written' = IF last'.stat = "AwaitingCommand"
                  THEN [addr |-> WordToAddr(parsed'.addr), val |-> parsed'.val]
                  ELSE NoWrite

\* The Breakpoint command: BrkptRecord::new reads the word (unwrap), then
\* Breakpoint::execute activates the record (unwrap) and drops it; the table of
\* the session is not touched.
Breakpoint(cmds, again) ==
    /\ pc = "prompt"
    /\ \E e \in cmds :
         LET a == WordToAddr(e.c.addr)
         IN  /\ e.c.kind = "Ok" /\ e.c.cmd = "Breakpoint"
             /\ Entered(e)
             /\ IF ~peek_text(a).ok
                THEN /\ last' = Did("Breakpoint", "Panic", "Failed to send PTRACE_PEEKTEXT message!")
                     /\ reqs' = {"PTRACE_PEEKTEXT"}
                     /\ UNCHANGED <<brkpt, mem, pristine>>
                ELSE /\ brkpt' = BrkptRecord_new(a)
                     /\ reqs' = {"PTRACE_PEEKTEXT", "PTRACE_POKETEXT"}
                     /\ IF KernelPokeOk(a)
                        THEN /\ mem' = Poke(mem, a, TrapWordFor(brkpt'.original_insn))
                             /\ last' = [Did("Breakpoint", "AwaitingCommand", "") EXCEPT !.val = e.c.addr]
                             /\ pristine' = IF a \in DOMAIN pristine THEN pristine
                                            ELSE pristine @@ (a :> brkpt'.original_insn)
                        ELSE /\ last' = Did("Breakpoint", "Panic", "Failed to send PTRACE_POKETEXT message!")
                             /\ UNCHANGED <<mem, pristine>>
    /\ pc' = Next_pc(last'.stat, again)
    /\ UNCHANGED <<wait_status, breakpoints, symbols, rip, tstate, notify, hit, corrected>>
    /\ written' = NoWrite

\* The interpreter returned an error value: the loop prints it and continues.
ParseError(cmds, again) ==
    /\ pc = "prompt"
    /\ \E e \in cmds :
             /\ e.c.kind = "Err"
             /\ Entered(e)
             /\ last' = Did("", "Err", e.c.msg)
    /\ reqs' = {}
    /\ pc' = Next_pc(last'.stat, again)
    /\ brkpt' = NoRecord
    /\ UNCHANGED <<wait_status, breakpoints, symbols, targetvars, pristine>>
    /\ UNCHANGED written

\* The interpreter panicked: an unwrap of a missing first token, or of a
\* missing line program.
ParsePanic(cmds, again) ==
    /\ pc = "prompt"
    /\ \E e \in cmds :
             /\ e.c.kind = "Panic"
             /\ Entered(e)
             /\ last' = Did("", "Panic", e.c.msg)
    /\ reqs' = {}
    /\ pc' = Next_pc(last'.stat, again)
    /\ brkpt' = NoRecord
    /\ UNCHANGED <<wait_status, breakpoints, symbols, targetvars, pristine>>
    /\ written' = NoWrite

\* ------------------------------------ TraceeDbg::run_debugger of dbg.rs

\* waitpid at the top of 'await_process.
WaitForStop ==
    /\ pc = "await_process"
    /\ WaitReturns
    /\ wait_status' = WaitResult
    /\ tstate' = Reap
    /\ notify' = None
    /\ pc' = "await_user"
    /\ reqs' = {"waitpid"}
    /\ last' = Idle
    /\ brkpt' = NoRecord
    /\ user_input' = <<>>
    /\ parsed' = NoCommand
    /\ UNCHANGED <<breakpoints, symbols, mem, rip, hit, corrected, pristine>>
    /\ written' = NoWrite

\* The SIGTRAP | SIGSTOP arm up to the prompt: getregs (expect), then the
\* lookup of regs.rip in the table, whose body is commented out.
OnStop ==
    /\ pc = "await_user"
    /\ wait_status \in {"SIGTRAP", "SIGSTOP"}
    /\ reqs' = {"PTRACE_GETREGS"}
    /\ IF ~Traced
       THEN pc' = "panicked" /\ last' = Did("", "Panic", "FATAL: failed to send PTRACE_REGS")
       ELSE pc' = "prompt" /\ last' = Idle
    /\ brkpt' = NoRecord
    /\ user_input' = <<>>
    /\ parsed' = NoCommand
    /\ UNCHANGED <<wait_status, breakpoints, symbols, targetvars, pristine>>
    /\ UNCHANGED written

\* The SIGSEGV and Exited arms: break 'await_process.
SessionEnds ==
    /\ pc = "await_user"
    /\ wait_status \in {"SIGSEGV", "Exited"}
    /\ pc' = "ended"
    /\ reqs' = {}
    /\ last' = Idle
    /\ brkpt' = NoRecord
    /\ user_input' = <<>>
    /\ parsed' = NoCommand
    /\ UNCHANGED <<wait_status, breakpoints, symbols, targetvars, pristine>>
    /\ written' = NoWrite

\* Ok(_unhandled) => todo!() and Err(_) => panic!().
Unhandled ==
    /\ pc = "await_user"
    /\ wait_status \in {"SIGINT", "Signaled", "ECHILD"}
    /\ pc' = "panicked"
    /\ reqs' = {}
    /\ last' = Did("", "Panic", IF wait_status = "ECHILD"
                                   THEN "Critical failure: failed to wait for target program!"
                                   ELSE "not yet implemented")
    /\ brkpt' = NoRecord
    /\ user_input' = <<>>
    /\ parsed' = NoCommand
    /\ UNCHANGED <<wait_status, breakpoints, symbols, targetvars, pristine>>
    /\ written' = NoWrite

Command ==
    \/ Step(DbgCommands[symbols], "await_user")
    \/ Continue(DbgCommands[symbols], "await_user")
    \/ ViewRegisters(DbgCommands[symbols], "await_user")
    \/ Quit(DbgCommands[symbols], "await_user")
    \/ HelpMe(DbgCommands[symbols], "await_user")
    \/ ReadWord(DbgCommands[symbols], "await_user")
    \/ WriteWord(DbgCommands[symbols], "await_user")
    \/ Breakpoint(DbgCommands[symbols], "await_user")
    \/ ParseError(DbgCommands[symbols], "await_user")
    \/ ParsePanic(DbgCommands[symbols], "await_user")

Next ==
    \/ WaitForStop
    \/ OnStop
    \/ SessionEnds
    \/ Unhandled
    \/ Command
    \/ TargetExec
    \/ ExternalKill

Spec == Init /\ [][Next]_vars

\* ---------------------------------- TraceeDb::run_debugger of function.rs

\* poke_text of function.rs: the result of the kernel request is dropped.
poke_text_unchecked(m, a, w) == IF KernelPokeOk(a) THEN Poke(m, a, w) ELSE m

\* The top of 'await_process: waitpid, getregs (expect) whatever was reported,
\* and, when the table has a record at regs.rip, the original word poked back
\* and rip rewound by one (setregs).  A SIGTRAP | SIGSTOP report then leads to
\* the prompt.
FnWaitForStop ==
    /\ pc = "await_process"
    /\ WaitReturns
    /\ wait_status' = WaitResult
    /\ notify' = None
    /\ tstate' = Reap
    /\ brkpt' = NoRecord
    /\ user_input' = <<>>
    /\ parsed' = NoCommand
    /\ IF Reap # "stopped"
       THEN /\ pc' = "panicked"
            /\ reqs' = {"waitpid", "PTRACE_GETREGS"}
            /\ last' = Did("", "Panic", "FATAL: failed to send PTRACE_REGS")
            /\ UNCHANGED <<mem, rip, corrected>>
       ELSE /\ pc' = IF WaitResult \in {"SIGTRAP", "SIGSTOP"} THEN "prompt" ELSE "await_user"
            /\ last' = Idle
            /\ IF rip \in DOMAIN breakpoints
               THEN /\ mem' = poke_text_unchecked(mem, breakpoints[rip].pc_addr,
                                                  breakpoints[rip].original_insn)
                    /\ rip' = rip - 1
                    /\ corrected' = TRUE
                    /\ reqs' = {"waitpid", "PTRACE_GETREGS", "PTRACE_POKETEXT", "PTRACE_SETREGS"}
               ELSE /\ reqs' = {"waitpid", "PTRACE_GETREGS"}
                    /\ UNCHANGED <<mem, rip, corrected>>
    /\ UNCHANGED <<breakpoints, symbols, hit, pristine>>
    /\ written' = NoWrite

\* The SIGSEGV and Exited arms: a plain break leaves 'await_user only, and
\* 'await_process goes round to waitpid again.
FnLeaveInner ==
    /\ pc = "await_user"
    /\ wait_status \in {"SIGSEGV", "Exited"}
    /\ pc' = "await_process"
    /\ reqs' = {}
    /\ last' = Idle
    /\ brkpt' = NoRecord
    /\ user_input' = <<>>
    /\ parsed' = NoCommand
    /\ UNCHANGED <<wait_status, breakpoints, symbols, targetvars, pristine>>
    /\ written' = NoWrite

\* The head of 'await_user at a SIGTRAP | SIGSTOP report: the match selects
\* the arm that calls prompt_user_cmd.
FnAwaitUser ==
    /\ pc = "await_user"
    /\ wait_status \in {"SIGTRAP", "SIGSTOP"}
    /\ pc' = "prompt"
    /\ reqs' = {}
    /\ last' = Idle
    /\ brkpt' = NoRecord
    /\ user_input' = <<>>
    /\ parsed' = NoCommand
    /\ UNCHANGED <<wait_status, breakpoints, symbols, targetvars, pristine>>
    /\ UNCHANGED written

FnCommand ==
    \/ Step(FnCommands[symbols], "await_user")
    \/ Continue(FnCommands[symbols], "await_user")
    \/ ViewRegisters(FnCommands[symbols], "await_user")
    \/ Quit(FnCommands[symbols], "await_user")
    \/ HelpMe(FnCommands[symbols], "await_user")
    \/ ReadWord(FnCommands[symbols], "await_user")
    \/ WriteWord(FnCommands[symbols], "await_user")
    \/ Breakpoint(FnCommands[symbols], "await_user")
    \/ ParseError(FnCommands[symbols], "await_user")
    \/ ParsePanic(FnCommands[symbols], "await_user")

NextFunction ==
    \/ FnWaitForStop
    \/ FnAwaitUser
    \/ FnLeaveInner
    \/ Unhandled
    \/ FnCommand
    \/ TargetExec
    \/ ExternalKill

SpecFunction == Init /\ [][NextFunction]_vars

\* ------------------------------------------- run_debugger of main.rs

\* waitpid at the top of 'outer; a SIGTRAP | SIGSTOP report leads to
\* accept_user_input.
MainWaitForStop ==
    /\ pc = "await_process"
    /\ WaitReturns
    /\ wait_status' = WaitResult
    /\ notify' = None
    /\ tstate' = Reap
    /\ pc' = IF WaitResult \in {"SIGTRAP", "SIGSTOP"} THEN "prompt" ELSE "await_user"
    /\ reqs' = {"waitpid"}
    /\ last' = Idle
    /\ brkpt' = NoRecord
    /\ user_input' = <<>>
    /\ parsed' = NoCommand
    /\ UNCHANGED <<breakpoints, symbols, mem, rip, hit, corrected, pristine>>
    /\ written' = NoWrite

\* Every request of main.rs is unwrapped with expect.
MainDone(c, ok, stat, then) ==
    /\ last' = IF ok THEN Did(c, stat, "") ELSE Did(c, "Panic", "expect")
    /\ pc' = IF ok THEN then ELSE "panicked"
    /\ brkpt' = NoRecord
    /\ UNCHANGED <<wait_status, breakpoints, symbols, pristine>>

\* Command::Quit: kill, break 'outer.
MainQuit ==
    /\ pc = "prompt"
    /\ \E e \in MainCommands : e.c = Ok("Quit", NoArg, NoArg) /\ Entered(e)
    /\ reqs' = {"PTRACE_KILL"}
    /\ IF Traced THEN tstate' = "zombie" /\ notify' = "Signaled"
       ELSE UNCHANGED <<tstate, notify>>
    /\ MainDone("Quit", Traced, "Killed", "ended")
    /\ UNCHANGED <<mem, rip, hit, corrected>>
    /\ written' = NoWrite

\* Command::Read: read_word_memory_region.
MainRead ==
    /\ pc = "prompt"
    /\ \E e \in MainCommands :
         /\ e.c.kind = "Ok" /\ e.c.cmd = "Read"
         /\ Entered(e)
         /\ MainDone("Read", KernelPeek(WordToAddr(e.c.addr)).errno = "UnknownErrno",
                     "AwaitingCommand", "await_user")
    /\ reqs' = {"PTRACE_PEEKDATA"}
    /\ UNCHANGED targetvars
    /\ UNCHANGED written

\* Command::Write: write_word.
MainWrite ==
    /\ pc = "prompt"
    /\ \E e \in MainCommands :
         /\ e.c.kind = "Ok" /\ e.c.cmd = "Write"
         /\ Entered(e)
         /\ mem' = IF KernelPokeOk(WordToAddr(e.c.addr))
                   THEN Poke(mem, WordToAddr(e.c.addr), e.c.val) ELSE mem
         /\ MainDone("Write", KernelPokeOk(WordToAddr(e.c.addr)), "AwaitingCommand", "await_user")
    /\ reqs' = {"PTRACE_POKEDATA"}
    /\ UNCHANGED <<rip, tstate, notify, hit, corrected>>
    /\ written' = IF last'.stat = "AwaitingCommand"
                  THEN [addr |-> WordToAddr(parsed'.addr), val |-> parsed'.val]
                  ELSE NoWrite

\* Command::ViewRegisters: print_register_status.
MainViewRegisters ==
    /\ pc = "prompt"
    /\ \E e \in MainCommands : e.c = Ok("ViewRegisters", NoArg, NoArg) /\ Entered(e)
    /\ reqs' = {"PTRACE_GETREGS"}
    /\ MainDone("ViewRegisters", Traced, "AwaitingCommand", "await_user")
    /\ UNCHANGED targetvars
    /\ UNCHANGED written

\* Command::Step: step, continue 'outer.
MainStep ==
    /\ pc = "prompt"
    /\ \E e \in MainCommands : e.c = Ok("Step", NoArg, NoArg) /\ Entered(e)
    /\ reqs' = {"PTRACE_SINGLESTEP"}
    /\ tstate' = IF Traced THEN "stepping" ELSE tstate
    /\ MainDone("Step", Traced, "Running", "await_process")
    /\ UNCHANGED <<mem, rip, notify, hit, corrected>>
    /\ written' = NoWrite

\* Command::Continue: cont, break 'outer.
MainContinue ==
    /\ pc = "prompt"
    /\ \E e \in MainCommands : e.c = Ok("Continue", NoArg, NoArg) /\ Entered(e)
    /\ reqs' = {"PTRACE_CONT"}
    /\ tstate' = IF Traced THEN "running" ELSE tstate
    /\ MainDone("Continue", Traced, "Running", "ended")
    /\ UNCHANGED <<mem, rip, notify, hit, corrected>>
    /\ written' = NoWrite

\* Command::Unknown: a message, and the inner loop goes round.
MainUnknown ==
    /\ pc = "prompt"
    /\ \E e \in MainCommands : e.c = Ok("Unknown", NoArg, NoArg) /\ Entered(e)
    /\ reqs' = {}
    /\ MainDone("Unknown", TRUE, "AwaitingCommand", "await_user")
    /\ UNCHANGED targetvars
    /\ UNCHANGED written

\* accept_user_input unwraps the first token of the line.
MainInputPanic ==
    /\ pc = "prompt"
    /\ \E e \in MainCommands : e.c.kind = "Panic" /\ Entered(e)
    /\ reqs' = {}
    /\ MainDone("", FALSE, "AwaitingCommand", "await_user")
    /\ UNCHANGED targetvars
    /\ written' = NoWrite

\* The SIGSEGV and Exited arms: a plain break leaves the inner loop only.
MainLeaveInner ==
    /\ pc = "await_user"
    /\ wait_status \in {"SIGSEGV", "Exited"}
    /\ pc' = "await_process"
    /\ reqs' = {}
    /\ last' = Idle
    /\ brkpt' = NoRecord
    /\ user_input' = <<>>
    /\ parsed' = NoCommand
    /\ UNCHANGED <<wait_status, breakpoints, symbols, targetvars, pristine>>
    /\ written' = NoWrite

\* The head of the inner loop at a SIGTRAP | SIGSTOP report: the match
\* selects the arm that calls accept_user_input.
MainAwaitUser ==
    /\ pc = "await_user"
    /\ wait_status \in {"SIGTRAP", "SIGSTOP"}
    /\ pc' = "prompt"
    /\ reqs' = {}
    /\ last' = Idle
    /\ brkpt' = NoRecord
    /\ user_input' = <<>>
    /\ parsed' = NoCommand
    /\ UNCHANGED <<wait_status, breakpoints, symbols, targetvars, pristine>>
    /\ UNCHANGED written

NextMain ==
    \/ MainWaitForStop
    \/ MainAwaitUser
    \/ MainQuit
    \/ MainRead
    \/ MainWrite
    \/ MainViewRegisters
    \/ MainStep
    \/ MainContinue
    \/ MainUnknown
    \/ MainInputPanic
    \/ MainLeaveInner
    \/ Unhandled
    \/ TargetExec
    \/ ExternalKill

SpecMain == Init /\ [][NextMain]_vars

\* ------------------------------------------------------------- the claims

Resumes == {"PTRACE_SINGLESTEP", "PTRACE_CONT"}

\* C1: after a Step or a Continue whose request succeeded the session is
\* Running and stands at wait_for_stop: it has not ended and reads no command.
\* (Checked under SpecMain, the loop of main.rs.)
C1_ResumeThenWait ==
    (last.cmd \in {"Step", "Continue"} /\ last.stat = "Running") => pc = "await_process"

\* C2: once wait_for_stop has reported Exited or Segfaulted the loop ends: it
\* never stands at wait_for_stop or at the prompt again.  (SpecMain.)
C2_ExitEndsSession ==
    wait_status \in {"Exited", "SIGSEGV"} => pc \in {"await_user", "ended"}

\* C3: when the target trapped on the breakpoint installed at a, then at the
\* prompt rip is a, the word at a is the original one and the table holds a.
C3_HitCorrection ==
    (pc = "prompt" /\ hit \in DOMAIN pristine) =>
        /\ rip = hit
        /\ Peek(mem, hit) = pristine[hit]
        /\ hit \in DOMAIN breakpoints

\* C4: the word a Breakpoint command leaves at the address has 0xCC as its low
\* byte and the other seven bytes of the word that was read there.
C4_TrapKeepsOtherBytes ==
    (last.cmd = "Breakpoint" /\ last.stat = "AwaitingCommand") =>
        /\ Peek(mem, brkpt.pc_addr)[1] = TrapOpcode
        /\ \A i \in 2..8 : Peek(mem, brkpt.pc_addr)[i] = brkpt.original_insn[i]

\* C5: a breakpoint set again at an address that already has one is answered
\* AlreadySet, leaves the memory alone, keeps the word from before the first
\* set as the original, and the table holds one record for the address.
C5_IdempotentSet ==
    [][ (/\ pc = "prompt"
         /\ last'.cmd = "Breakpoint"
         /\ last'.stat # "Panic"
         /\ WordToAddr(last'.val) \in DOMAIN pristine)
        => (/\ last'.stat = "AlreadySet"
            /\ mem' = mem
            /\ brkpt'.original_insn = pristine[WordToAddr(last'.val)]
            /\ Cardinality({k \in DOMAIN breakpoints' :
                              breakpoints'[k].pc_addr = WordToAddr(last'.val)}) = 1) ]_vars

\* C7: whenever the target runs freely after a hit of the breakpoint at a, the
\* hit was rewound and the trap is in place at a.
C7_RearmedAfterHit ==
    (tstate = "running" /\ hit \in DOMAIN pristine) =>
        (corrected /\ mem[hit] = TrapOpcode)

Queries == {"ReadWord", "WriteWord", "ViewRegisters", "HelpMe"}

C10_ParseErrorChangesNothing ==
    [][ (pc = "prompt" /\ last'.cmd = "" /\ last'.stat \in {"Err", "Panic"})
        => (/\ pc' = "await_user"
            /\ reqs' = {}
            /\ mem' = mem
            /\ rip' = rip
            /\ tstate' = tstate
            /\ breakpoints' = breakpoints) ]_vars

\* C11: when wait_for_stop has reported a stop on another signal, or a death by
\* signal, the loop ends as it does after an exit: the debugger does not panic.
C11_UnhandledEndsSession ==
    wait_status \in {"SIGINT", "Signaled"} => pc \in {"await_user", "ended"}

\* C12: of every line read the interpreter makes one operation or one error
\* value; it never panics.
C12_InterpreterTotal ==
    parsed # NoCommand =>
        \/ parsed.kind = "Ok" /\ parsed.cmd # "" /\ parsed.msg = ""
        \/ parsed.kind = "Err" /\ parsed.cmd = "" /\ parsed.msg # ""

\* C13: the parse table.  A verb and its alias give the same, listed operation
\* (with the operands the line names, read as hexadecimal, and the address the
\* location resolves to); another first token and `r zz` give no operation.
C13_ParseTable ==
    /\ user_input \in {Join(<<V_s>>), Join(<<V_step>>)} => parsed = Ok("Step", NoArg, NoArg)
    /\ user_input \in {Join(<<V_c>>), Join(<<V_continue>>)}
         => parsed = Ok("Continue", NoArg, NoArg)
    /\ user_input \in {Join(<<V_reg>>), Join(<<V_registers>>)}
         => parsed = Ok("ViewRegisters", NoArg, NoArg)
    /\ user_input \in {Join(<<V_q>>), Join(<<V_quit>>)} => parsed = Ok("Quit", NoArg, NoArg)
    /\ user_input \in {Join(<<V_h>>), Join(<<V_help>>)} => parsed = Ok("HelpMe", NoArg, NoArg)
    /\ user_input \in {Join(<<V_r, T_10>>), Join(<<V_read, T_10>>)}
         => /\ parsed.kind = "Ok" /\ parsed.cmd \in {"ReadWord", "Read"}
            /\ parsed.addr = <<16, 0, 0, 0, 0, 0, 0, 0>>
    /\ user_input \in {Join(<<V_w, T_18, T_cc>>), Join(<<V_write, T_18, T_cc>>)}
         => /\ parsed.kind = "Ok" /\ parsed.cmd \in {"WriteWord", "Write"}
            /\ parsed.addr = <<24, 0, 0, 0, 0, 0, 0, 0>>
            /\ parsed.val = <<204, 0, 0, 0, 0, 0, 0, 0>>
    /\ user_input = Join(<<V_w, T_10, T_val>>)
         => /\ parsed.kind = "Ok" /\ parsed.cmd \in {"WriteWord", "Write"}
            /\ parsed.addr = <<16, 0, 0, 0, 0, 0, 0, 0>>
            /\ parsed.val = <<239, 190, 173, 222, 68, 51, 34, 17>>
    /\ (symbols = Image /\ user_input \in {Join(<<V_b, T_a5>>), Join(<<V_breakpoint, T_a5>>)})
         => parsed = Ok("Breakpoint", AddrToWord(TextBase + 8), NoArg)
    /\ user_input \in {Join(<<T_x>>), Join(<<V_r, T_zz>>)}
         => parsed.kind = "Err" \/ parsed.cmd = "Unknown"

\* C14: the error value returned for a line that fails in one way (operand
\* count, non-hex operand, malformed file:line, non-numeric line) is returned
\* for no line that fails in another way; `w` with fewer than two operands is
\* an operand-count failure.
C14_DistinctParseErrors ==
    LET count      == {Join(<<V_r>>), Join(<<V_w>>), Join(<<V_w, T_10>>), Join(<<V_b>>)}
        nonhex     == {Join(<<V_r, T_zz>>), Join(<<V_w, T_10, T_zz>>)}
        malformed  == {Join(<<V_b, F_a>>), Join(<<V_b, T_a55>>)}
        nonnumeric == {Join(<<V_b, T_ax>>)}
        kinds      == {count, nonhex, malformed, nonnumeric}
        msg(l)     == TraceeDbg_prompt_user_cmd(symbols, l).msg
    IN  \A k \in kinds :
          (symbols = Image /\ user_input \in k) =>
              /\ parsed.kind = "Err"
              /\ \A k2 \in kinds \ {k} : \A l \in k2 : msg(l) # parsed.msg

\* C15: a breakpoint command with a well-formed location is answered with one
\* error value when no debug information was loaded, and with another one
\* when it is loaded and the location does not resolve; no operation is made
\* in either case.
C15_BreakpointErrors ==
    LET locs   == {T_a4, T_a5, T_a6, T_a9, T_b5, T_n1}
        answer(s, t) == TraceeDbg_prompt_user_cmd(s, Join(<<V_b, t>>))
        found(s, t)  == src_line_to_addr(s.units, parse_file_and_lineno(t).fname,
                                         parse_file_and_lineno(t).lno).kind = "Ok"
    IN  \A t \in locs :
          user_input \in {Join(<<V_b, t>>), Join(<<V_breakpoint, t>>)} =>
              /\ ~symbols.loaded =>
                    /\ parsed.kind = "Err"
                    /\ parsed = answer(NoSymbols, T_b5)
                    /\ \A s \in DwarfImages, u \in locs :
                          (s.loaded /\ ~found(s, u)) => answer(s, u) # parsed
              /\ (symbols.loaded /\ ~found(symbols, t)) =>
                    /\ parsed.kind = "Err"
                    /\ parsed = answer(NoUnits, T_b5)
                    /\ parsed # answer(NoSymbols, t)

\* C16: a Step, Continue, ViewRegisters, Read or Write command whose kernel
\* request failed is answered with an error, after which the loop awaits a
\* command again and goes on to read it: it neither ends nor panics.
C16_KernelFailureKeepsSession ==
    [][ /\ (/\ pc = "prompt"
            /\ last'.cmd \in {"Step", "Continue", "ViewRegisters", "ReadWord", "WriteWord"}
            /\ last'.stat = "Err")
           => pc' = "await_user"
        /\ (/\ pc = "await_user"
            /\ last.cmd \in {"Step", "Continue", "ViewRegisters", "ReadWord", "WriteWord"}
            /\ last.stat = "Err")
           => pc' \in {"await_user", "prompt"} ]_vars

\* C17: a location whose file names a unit that has a row with exactly that
\* line resolves to the address of the first such row of such a unit; a
\* location for which no unit of that name has such a row is not found; no
\* address of a row with another line is ever returned.
C17_ResolveExact ==
    LET locs       == {T_a4, T_a5, T_a6, T_a9, T_b5, T_n1}
        units      == symbols.units
        named(f)   == {i \in 1..Len(units) : units[i].has_name /\ units[i].name = f}
        hits(i, l) == {j \in 1..Len(units[i].rows) : units[i].rows[j].line = l}
        first(i, l) == units[i].rows[CHOOSE j \in hits(i, l) : \A k \in hits(i, l) : j <= k].address
    IN  \A t \in locs :
          (symbols.loaded /\ user_input \in {Join(<<V_b, t>>), Join(<<V_breakpoint, t>>)}) =>
              LET f == parse_file_and_lineno(t).fname
                  l == parse_file_and_lineno(t).lno
              IN  IF \E i \in named(f) : hits(i, l) # {}
                  THEN \E i \in named(f) :
                          /\ hits(i, l) # {}
                          /\ parsed = Ok("Breakpoint", AddrToWord(first(i, l)), NoArg)
                  ELSE parsed.kind = "Err"

\* C18: with the symbols of a target without debug sections the index is
\* loaded and has no unit; at the prompt every breakpoint line is answered
\* with an error value and the loop awaits a command again, and of every other
\* line the interpreter makes what it makes of it with debug information.
C18_NoDebugInfoUsable ==
    [][ symbols = dwarf_symbols(Stripped) =>
          LET terms == split_whitespace(user_input')
          IN  /\ symbols.loaded /\ symbols.units = <<>>
              /\ (pc = "prompt" /\ terms # <<>> /\ terms[1] \in {V_b, V_breakpoint})
                    => /\ parsed'.kind = "Err"
                       /\ last'.stat = "Err"
                       /\ pc' = "await_user"
              /\ (pc = "prompt" /\ parsed' # NoCommand
                    /\ (terms = <<>> \/ terms[1] \notin {V_b, V_breakpoint}))
                    => parsed' = TraceeDbg_prompt_user_cmd(Image, user_input') ]_vars

C18_Witness ==
    /\ symbols = dwarf_symbols(Stripped)
    /\ pc = "await_user"
    /\ user_input = Join(<<V_b, T_a4>>)
    /\ parsed.kind = "Err"
    /\ last.stat = "Err"
    /\ tstate = "stopped"

\* C19: a Read that succeeds at the address of the last successful Write, the
\* target not having been stepped or continued (nor a breakpoint set) since,
\* returns the word written, all eight bytes of it.
C19_WriteThenRead ==
    [][ (/\ pc = "prompt"
         /\ written # NoWrite
         /\ last'.cmd = "ReadWord"
         /\ last'.stat = "AwaitingCommand"
         /\ WordToAddr(parsed'.addr) = written.addr)
        => last'.val = written.val ]_vars

C19_Witness ==
    /\ last.cmd = "ReadWord"
    /\ last.stat = "AwaitingCommand"
    /\ WordToAddr(parsed.addr) = written.addr
    /\ written.val = <<239, 190, 173, 222, 68, 51, 34, 17>>
    /\ last.val = written.val

\* C20: while the session awaits a command the table holds at most one record
\* per address, every record's address holds the trap byte, and every address
\* at which a Breakpoint command installed the trap byte that is still there
\* has a record.
C20_TableInvariant ==
    (pc \in {"await_user", "prompt"} /\ wait_status \in {"SIGTRAP", "SIGSTOP"}) =>
        /\ \A k1, k2 \in DOMAIN breakpoints :
              breakpoints[k1].pc_addr = breakpoints[k2].pc_addr => k1 = k2
        /\ \A k \in DOMAIN breakpoints : mem[breakpoints[k].pc_addr] = TrapOpcode
        /\ \A a \in DOMAIN pristine :
              mem[a] = TrapOpcode => \E k \in DOMAIN breakpoints : breakpoints[k].pc_addr = a

\* ------------------------------------------- the lookup at a stop, with records
\* Nothing in the repository inserts into the table, so what the lookup of
\* run_debugger does with a record shows only when the table is given one.

\* The record BrkptRecord::new makes at a before any trap is written there.
RecordAt(a) ==
    [pc_addr |-> a, original_insn |-> [i \in WordIdx |-> CodeByte(a - TextBase + i - 1)]]

\* Tables of HashMap<u64, BrkptRecord>: empty, a record for the first
\* instruction under its own address, and the same record under the address
\* after it.
Tables ==
    { <<>>, (TextBase :> RecordAt(TextBase)), ((TextBase + 1) :> RecordAt(TextBase)) }

InitWithRecords ==
    /\ pc = "await_process"
    /\ wait_status = None
    /\ breakpoints \in Tables
    /\ symbols = Image
    /\ brkpt = NoRecord
    /\ mem = [x \in Mapped |-> CodeByte(x - TextBase)]
    /\ rip = TextBase
    /\ tstate = "stopped"
    /\ notify \in {"SIGTRAP", "SIGSTOP"}
    /\ hit = -1
    /\ corrected = FALSE
    /\ pristine = <<>>
    /\ last = Idle
    /\ reqs = {}
    /\ user_input = <<>>
    /\ parsed = NoCommand
    /\ written = NoWrite

\* The loop of dbg.rs, started with a table that may hold a record.
SpecWithRecords == InitWithRecords /\ [][Next]_vars

C22_ResumeExecutesOriginal ==
    [][ (/\ pc = "prompt"
         /\ hit \in DOMAIN pristine
         /\ last'.cmd \in {"Step", "Continue"}
         /\ last'.stat = "Running")
        => (/\ rip' = hit
            /\ Peek(mem', hit) = pristine[hit]) ]_vars

\* C23: a Breakpoint command whose read or write of the code word fails ends
\* the session with the error and leaves the memory alone; one after which
\* the session goes on has written the trap and has its record in the table.
C23_BreakpointIoFatal ==
    [][ (pc = "prompt" /\ parsed'.kind = "Ok" /\ parsed'.cmd = "Breakpoint") =>
          LET a == WordToAddr(parsed'.addr)
          IN  /\ (~peek_text(a).ok \/ ~KernelPokeOk(a))
                    => (/\ pc' = "panicked"
                        /\ last'.msg \in {"Failed to send PTRACE_PEEKTEXT message!",
                                          "Failed to send PTRACE_POKETEXT message!"}
                        /\ mem' = mem)
              /\ pc' # "panicked"
                    => (/\ mem'[a] = TrapOpcode
                        /\ \E k \in DOMAIN breakpoints' : breakpoints'[k].pc_addr = a) ]_vars

\* The requests that read or write the target's registers or memory.
Accesses ==
    {"PTRACE_GETREGS", "PTRACE_SETREGS", "PTRACE_PEEKDATA", "PTRACE_POKEDATA",
     "PTRACE_PEEKTEXT", "PTRACE_POKETEXT"}

\* C24: the loop reads a command, or reads or writes the target's registers
\* or memory, only in a step it takes on a stop that the latest wait reported
\* as SIGTRAP | SIGSTOP; from a successful Step or Continue request the only
\* step the loop takes is the wait, which reads no command.
C24_CommandsOnlyAtStops ==
    [][ dbgvars' # dbgvars =>
          /\ (parsed' # NoCommand \/ reqs' \cap Accesses # {})
                => (/\ wait_status \in {"SIGTRAP", "SIGSTOP"}
                    /\ wait_status' = wait_status
                    /\ pc \in {"await_user", "prompt"})
          /\ (last.cmd \in {"Step", "Continue"} /\ last.stat = "Running")
                => (/\ pc = "await_process"
                    /\ reqs' = {"waitpid"}
                    /\ parsed' = NoCommand) ]_vars

\* The target has stepped and stopped again, and the loop, which has not
\* waited yet, has read nothing since the Step command.
C24_Witness ==
    /\ pc = "await_process"
    /\ last.cmd = "Step"
    /\ last.stat = "Running"
    /\ parsed = Ok("Step", NoArg, NoArg)
    /\ tstate = "stopped"
    /\ notify = "SIGTRAP"

\* C25: in a step of the loop that ends with the latest report of the wait
\* being an exit, a SIGSEGV stop, another signal's stop or a death by signal,
\* the loop makes no request that reads or writes the target's registers or
\* memory.
C25_NoAccessUnlessStopped ==
    [][ (/\ dbgvars' # dbgvars
         /\ wait_status' \in {"Exited", "SIGSEGV", "SIGINT", "Signaled"})
        => reqs' \cap Accesses = {} ]_vars

\* C26: a line with fewer or more operands than the grammar lists for its verb
\* (`r`, `w`, `w 10`, `b`, `r 10 20`, `w 10 <word> cc`, `s x`) is answered with
\* an operand-count error value and makes no operation.
C26_OperandCountRejected ==
    LET wrong == {Join(<<V_r>>), Join(<<V_w>>), Join(<<V_w, T_10>>), Join(<<V_b>>),
                  Join(<<V_r, T_10, T_20>>), Join(<<V_w, T_10, T_val, T_cc>>),
                  Join(<<V_s, T_x>>)}
        count == {"Missing the address to read from", "Missing the address to read from!",
                  "Insufficient arguments for command!"}
    IN  (symbols = Image /\ user_input \in wrong) =>
            (parsed.kind = "Err" /\ parsed.msg \in count)

\* C27: a Quit command whose kill request fails is answered with an error,
\* after which the loop awaits a command again and goes on to read it; the
\* answer is Killed only when the kill request succeeded.
C27_FailedQuitKeepsSession ==
    [][ /\ (pc = "prompt" /\ last'.cmd = "Quit" /\ ~Traced)
           => (last'.stat = "Err" /\ pc' = "await_user")
        /\ (pc = "await_user" /\ last.cmd = "Quit" /\ last.stat = "Err")
           => pc' \in {"await_user", "prompt"}
        /\ (pc = "prompt" /\ last'.stat = "Killed")
           => (last'.cmd = "Quit" /\ Traced) ]_vars

\* C28: a location resolves to the address of the first row with the line in
\* the first unit, in the order of the units, that has the name and has such
\* a row (units of the name without such a row are passed over, later units
\* of the name are scanned); it is not found, with the error value, exactly
\* when no unit of the name has such a row.
C28_FirstUnitFirstRow ==
    LET locs        == {T_a4, T_a5, T_a6, T_a9, T_b5, T_n1}
        units       == symbols.units
        hits(i, l)  == {j \in 1..Len(units[i].rows) : units[i].rows[j].line = l}
        match(f, l) == {i \in 1..Len(units) :
                          units[i].has_name /\ units[i].name = f /\ hits(i, l) # {}}
        min(S)      == CHOOSE x \in S : \A y \in S : x <= y
    IN  \A t \in locs :
          (symbols.loaded /\ user_input \in {Join(<<V_b, t>>), Join(<<V_breakpoint, t>>)}) =>
              LET f == parse_file_and_lineno(t).fname
                  l == parse_file_and_lineno(t).lno
              IN  IF match(f, l) # {}
                  THEN parsed = Ok("Breakpoint",
                                   AddrToWord(units[min(match(f, l))].rows[
                                                  min(hits(min(match(f, l)), l))].address),
                                   NoArg)
                  ELSE parsed = Err("Failed to resolve address!")

\* C29: an address a location resolves to comes from a row of a unit whose top
\* entry has both the compilation directory and the name; when the only
\* units of the name with a row for the line lack the compilation directory
\* (and no unit of the name lacks its line program), the answer is the error
\* value of a location that does not resolve.
C29_CompDirRequired ==
    LET locs       == {T_a4, T_a5, T_a6, T_a9, T_b5, T_n1}
        units      == symbols.units
        named(f)   == {i \in 1..Len(units) : units[i].has_name /\ units[i].name = f}
        rowAt(i, l, a) == \E j \in 1..Len(units[i].rows) :
                              units[i].rows[j].line = l /\ units[i].rows[j].address = a
        hasRow(i, l)   == \E j \in 1..Len(units[i].rows) : units[i].rows[j].line = l
    IN  \A t \in locs :
          (symbols.loaded /\ user_input \in {Join(<<V_b, t>>), Join(<<V_breakpoint, t>>)}) =>
              LET f == parse_file_and_lineno(t).fname
                  l == parse_file_and_lineno(t).lno
              IN  /\ parsed.kind = "Ok" =>
                        \E i \in named(f) :
                            /\ units[i].comp_dir
                            /\ rowAt(i, l, WordToAddr(parsed.addr))
                  /\ (/\ \E i \in named(f) : hasRow(i, l)
                      /\ \A i \in named(f) : hasRow(i, l) => ~units[i].comp_dir
                      /\ \A i \in named(f) : units[i].has_line_program)
                        => parsed = Err("Failed to resolve address!")

\* `b a.c:9` was answered: the only unit named a.c with a row for line 9 has
\* no compilation directory, and the location did not resolve.
C29_Witness ==
    /\ symbols = Image
    /\ user_input = Join(<<V_b, T_a9>>)
    /\ parsed = Err("Failed to resolve address!")
    /\ \E i \in 1..Len(symbols.units) :
          /\ symbols.units[i].has_name /\ symbols.units[i].name = F_a
          /\ ~symbols.units[i].comp_dir
          /\ \E j \in 1..Len(symbols.units[i].rows) : symbols.units[i].rows[j].line = 9
    /\ pc = "await_user"

\* C30: the read of the code word by a Breakpoint command succeeds with the
\* word the kernel returned whenever the kernel set no error number, the
\* word -1 included, and fails only when the kernel returned -1 with an error
\* number set.
C30_PeekTextMinusOne ==
    [][ (pc = "prompt" /\ parsed'.kind = "Ok" /\ parsed'.cmd = "Breakpoint") =>
          LET k == KernelPeek(WordToAddr(parsed'.addr))
          IN  /\ k.errno = "UnknownErrno"
                    => (/\ last'.msg # "Failed to send PTRACE_PEEKTEXT message!"
                        /\ brkpt'.original_insn = k.ret)
              /\ last'.msg = "Failed to send PTRACE_PEEKTEXT message!"
                    => (k.ret = MinusOne /\ k.errno # "UnknownErrno") ]_vars

\* A breakpoint was set where the word was -1: the record holds that word.
C30_Witness ==
    /\ last.cmd = "Breakpoint"
    /\ last.stat = "AwaitingCommand"
    /\ brkpt.original_insn = MinusOne

=============================================================================
